---- MODULE Spec2Model ----
(***************************************************************************)
(* A model of src/blocks/weather/nws.rs: the National Weather Service      *)
(* provider of the weather block.                                          *)
(*                                                                         *)
(* Numbers.  An f64 is held as an exact rational <<n, d>> in lowest terms  *)
(* with d > 0.  Three values of f64 that are no ordinary rational are held *)
(* with d = 0: NaN = <<0, 0>>, f64::MAX = <<1, 0>>, f64::MIN = <<-1, 0>>,  *)
(* and the infinities <<2, 0>> and <<-2, 0>>.                              *)
(* The sines and cosines of the sixteen compass bearings are irrational;   *)
(* a quantity built from them is held exactly, as its four rational        *)
(* coordinates over 1, cos 22.5, cos 45 and cos 67.5 (a "surd"), and is    *)
(* turned into a number only by hypot and atan2.  The arithmetic of the    *)
(* model is therefore that of the reals: the rounding of f64 is not        *)
(* modelled.                                                               *)
(*                                                                         *)
(* Angles are held in half-degrees, so that the 22.5 degree step of the    *)
(* compass is the integer 45.  A wind direction is a pair <<lo, hi>>: the  *)
(* angle lo exactly when lo = hi, an angle strictly between lo and hi      *)
(* (two neighbouring compass bearings) otherwise.                          *)
(***************************************************************************)
EXTENDS Integers, Sequences, FiniteSets, TLC

VARIABLES
    periods,        \* get_weather: data.properties.periods of the decoded response
    forecast_hours, \* get_weather: self.config.forecast_hours
    need_forecast,  \* get_weather: the need_forecast argument
    result,         \* get_weather: the Result<WeatherResult> returned
    data,           \* combine_forecasts: the slice of ForecastAggregate
    forecast,       \* combine_forecasts: the Forecast returned
    weather,        \* short_forecast_to_icon: the text, a sequence of characters
    is_night,       \* short_forecast_to_icon: the flag
    kinds,          \* the classes of the phrases the text was written from
    icon            \* short_forecast_to_icon: the WeatherIcon returned

vars == <<periods, forecast_hours, need_forecast, result, data, forecast,
          weather, is_night, kinds, icon>>

\* Option<T>
None == <<>>
Some(x) == <<x>>
IsSome(o) == o # <<>>
Unwrap(o) == o[1]

-----------------------------------------------------------------------------
(* Rationals *)

Abs(x) == IF x < 0 THEN -x ELSE x
Sign(x) == IF x < 0 THEN -1 ELSE IF x > 0 THEN 1 ELSE 0

RECURSIVE GCD(_, _)
GCD(a, b) == IF b = 0 THEN Abs(a) ELSE GCD(Abs(b), Abs(a) % Abs(b))

LCM(a, b) == (a \div GCD(a, b)) * b

\* n / d in lowest terms, d # 0
Q(n, d) ==
    LET g == GCD(Abs(n), Abs(d))
        s == IF d < 0 THEN -1 ELSE 1
    IN  <<s * (n \div g), s * (d \div g)>>

NaN == <<0, 0>>
F64_MAX == <<1, 0>>
F64_MIN == <<-1, 0>>
Infinity == <<2, 0>>
NegInfinity == <<-2, 0>>
Zero == <<0, 1>>
Int2Q(i) == <<i, 1>>

IsNaN(a) == a = NaN
IsFinite(a) == a[2] > 0

\* a + b, for a and b ordinary or NaN
QAdd(a, b) ==
    IF IsNaN(a) \/ IsNaN(b) THEN NaN
    ELSE LET l == LCM(a[2], b[2])
         IN  Q(a[1] * (l \div a[2]) + b[1] * (l \div b[2]), l)

QNeg(a) == <<-a[1], a[2]>>
QSub(a, b) == QAdd(a, QNeg(b))

\* a * b, for a and b ordinary or NaN; cross-reduced first to keep the products small
QMul(a, b) ==
    IF IsNaN(a) \/ IsNaN(b) THEN NaN
    ELSE LET g1 == GCD(Abs(a[1]), b[2])
             g2 == GCD(Abs(b[1]), a[2])
         IN  Q((a[1] \div g1) * (b[1] \div g2), (a[2] \div g2) * (b[2] \div g1))

\* a / b as f64 divides, for a and b ordinary or NaN: 0.0 / 0.0 is NaN
QDiv(a, b) ==
    IF IsNaN(a) \/ IsNaN(b) THEN NaN
    ELSE IF b[1] = 0 THEN (IF a[1] = 0 THEN NaN
                           ELSE IF a[1] > 0 THEN Infinity ELSE NegInfinity)
    ELSE QMul(a, Q(b[2], b[1]))

\* a < b as f64 compares: false when either is NaN
QLt(a, b) ==
    IF IsNaN(a) \/ IsNaN(b) THEN FALSE
    ELSE IF a[2] = 0 \/ b[2] = 0
         THEN (IF a[2] = 0 /\ b[2] = 0 THEN a[1] < b[1]
               ELSE IF a[2] = 0 THEN a[1] < 0 ELSE b[1] > 0)
    ELSE LET l == LCM(a[2], b[2])
         IN  a[1] * (l \div a[2]) < b[1] * (l \div b[2])
QGt(a, b) == QLt(b, a)
QLe(a, b) == ~IsNaN(a) /\ ~IsNaN(b) /\ ~QLt(b, a)

\* f64::max and f64::min: the other operand when one is NaN
QMax(a, b) == IF IsNaN(a) THEN b ELSE IF IsNaN(b) THEN a ELSE IF QLt(a, b) THEN b ELSE a
QMin(a, b) == IF IsNaN(a) THEN b ELSE IF IsNaN(b) THEN a ELSE IF QLt(b, a) THEN b ELSE a

-----------------------------------------------------------------------------
(* Surds: <<q0, q1, q2, q3>> is q0 + q1 cos 22.5 + q2 cos 45 + q3 cos 67.5.  *)
(* The four are linearly independent over the rationals, so a surd is zero  *)
(* exactly when its four coordinates are.                                   *)

SurdZero == <<Zero, Zero, Zero, Zero>>
SurdAdd(s, t) == [a \in 1..4 |-> QAdd(s[a], t[a])]
SurdSub(s, t) == [a \in 1..4 |-> QSub(s[a], t[a])]
SurdScale(q, s) == [a \in 1..4 |-> QMul(q, s[a])]
\* the coordinate b of cos(j * 22.5 degrees), for any integer j: cos is even, has
\* period 16 steps, cos(180 - x) = -cos x, and cos 90 = 0
CosCoef(j, b) ==
    LET m == j % 16
        f == IF m > 8 THEN 16 - m ELSE m
    IN  IF f < 4 THEN (IF b = f + 1 THEN 1 ELSE 0)
        ELSE IF f > 4 THEN (IF b = 8 - f + 1 THEN -1 ELSE 0)
        ELSE 0

CosSurd(j) == [b \in 1..4 |-> Int2Q(CosCoef(j, b))]

\* sin x = cos(90 - x)
SinSurd(j) == CosSurd(4 - j)

\* 1000 cos 0, 1000 cos 22.5, 1000 cos 45, 1000 cos 67.5, to the nearest integer
CosMilli == <<1000, 924, 707, 383>>

\* the common denominator of the coordinates, and the numerators over it
SurdDen(s) == LCM(LCM(s[1][2], s[2][2]), LCM(s[3][2], s[4][2]))
SurdNum(s, den) == [a \in 1..4 |-> s[a][1] * (den \div s[a][2])]

\* the value of the integer combination m of 1, cos 22.5, cos 45, cos 67.5, times 1000
Milli(m) == m[1] * CosMilli[1] + m[2] * CosMilli[2] + m[3] * CosMilli[3] + m[4] * CosMilli[4]

RECURSIVE IsqrtIn(_, _, _)
IsqrtIn(x, lo, hi) ==
    IF lo = hi THEN lo
    ELSE LET mid == (lo + hi + 1) \div 2
         IN  IF mid * mid <= x THEN IsqrtIn(x, mid, hi) ELSE IsqrtIn(x, lo, mid - 1)

\* the integer square root, for 0 <= x < 2^31
Isqrt(x) == IsqrtIn(x, 0, 46340)

MaxAbs(v) ==
    LET m(a, b) == IF Abs(a) > Abs(b) THEN Abs(a) ELSE Abs(b)
    IN  m(m(v[1], v[2]), m(v[3], v[4]))

\* the vector (east, north) as a rational unit times two integer combinations of
\* 1, cos 22.5, cos 45 and cos 67.5 with no common factor
Reduced(east, north) ==
    LET den == LCM(SurdDen(east), SurdDen(north))
        e == SurdNum(east, den)
        n == SurdNum(north, den)
        g == GCD(GCD(GCD(e[1], e[2]), GCD(e[3], e[4])),
                 GCD(GCD(n[1], n[2]), GCD(n[3], n[4])))
    IN  [unit |-> Q(g, den),
         east |-> [i \in 1..4 |-> e[i] \div g],
         north |-> [i \in 1..4 |-> n[i] \div g]]

\* the larger of two integers
Larger(a, b) == IF a > b THEN a ELSE b

\* sqrt(e^2 + n^2) to the nearest integer, times unit * scale / 1000
HypotRoot(unit, e, n, scale) ==
    QMul(unit, QMul(Q((Isqrt(4 * (e * e + n * n)) + 1) \div 2, 1000), Int2Q(scale)))

HypotCut2(unit, e, n, cut, cut2) ==
    HypotRoot(unit, e \div cut2, n \div cut2, cut * cut2)

\* e and n are the two components in thousandths: too large to be squared, they
\* are cut down first
HypotMilli(unit, e, n, cut) ==
    HypotCut2(unit, e, n, cut, 1 + Larger(e, n) \div 15000)

\* the coordinates of the reduced vector r, cut down by cut, in thousandths
HypotCut(r, cut) ==
    HypotMilli(r.unit,
               Abs(Milli([i \in 1..4 |-> r.east[i] \div cut])),
               Abs(Milli([i \in 1..4 |-> r.north[i] \div cut])),
               cut)

\* a coordinate of the reduced vector r above 5000 is cut down first
HypotReduced(r) == HypotCut(r, 1 + Larger(MaxAbs(r.east), MaxAbs(r.north)) \div 5000)

\* f64::hypot, east.hypot(north): sqrt(east^2 + north^2).  The square root is taken
\* of the reduced vector, to the nearest thousandth, and is good to about three
\* significant digits (a coordinate above 5000 is cut down first, and so is a
\* component too large to be squared)
hypot(east, north) ==
    IF east = SurdZero /\ north = SurdZero THEN Zero
    ELSE HypotReduced(Reduced(east, north))

\* twice v * cos(m * 22.5 degrees), for v an integer combination of 1, cos 22.5,
\* cos 45 and cos 67.5: 2 cos a cos m = cos(a + m) + cos(a - m)
MulCos2(v, m) ==
    [b \in 1..4 |->
        v[1] * (CosCoef(m, b) + CosCoef(-m, b))
      + v[2] * (CosCoef(1 + m, b) + CosCoef(1 - m, b))
      + v[3] * (CosCoef(2 + m, b) + CosCoef(2 - m, b))
      + v[4] * (CosCoef(3 + m, b) + CosCoef(3 - m, b))]

\* the sign of an integer combination: zero is decided exactly (1, cos 22.5, cos 45
\* and cos 67.5 are linearly independent over the rationals), the sign of a non-zero
\* one from its value
SignOf(v) == IF v = <<0, 0, 0, 0>> THEN 0 ELSE Sign(Milli(v))

\* the vector (north, east) against the unit vector of bearing k * 22.5 degrees:
\* the signs of |v| sin(angle(v) - bearing) and of |v| cos(angle(v) - bearing)
CrossSign(e, n, k) ==
    LET a == MulCos2(e, k)
        b == MulCos2(n, 4 - k)
    IN  SignOf([i \in 1..4 |-> a[i] - b[i]])
DotSign(e, n, k) ==
    LET a == MulCos2(n, k)
        b == MulCos2(e, 4 - k)
    IN  SignOf([i \in 1..4 |-> a[i] + b[i]])

\* f64::atan2 followed by to_degrees, east.atan2(north).to_degrees(): the angle of the
\* vector in (-180, 180], clockwise from north; atan2(0, 0) is 0
atan2_degrees(east, north) ==
    IF east = SurdZero /\ north = SurdZero THEN <<0, 0>>
    ELSE LET r == Reduced(east, north)
             cross == [k \in -8..8 |-> CrossSign(r.east, r.north, k)]
         IN  IF \E k \in -7..8 : cross[k] = 0 /\ DotSign(r.east, r.north, k) > 0
             THEN LET k == CHOOSE k \in -7..8 :
                               cross[k] = 0 /\ DotSign(r.east, r.north, k) > 0
                  IN  <<45 * k, 45 * k>>
             ELSE LET k == CHOOSE k \in -8..7 : cross[k] > 0 /\ cross[k + 1] < 0
                  IN  <<45 * k, 45 * (k + 1)>>

\* rem_euclid left out: the angle as atan2 gives it
rem_euclid_skipped(angle, m) == angle

\* f64::rem_euclid by m half-degrees
rem_euclid(angle, m) ==
    LET shift == angle[1] - (angle[1] % m)
    IN  <<angle[1] - shift, angle[2] - shift>>

\* f64::sin_cos of degrees.to_radians(), for degrees a compass bearing
sin_cos(degrees) == <<SinSurd(degrees[1] \div 45), CosSurd(degrees[1] \div 45)>>

-----------------------------------------------------------------------------
(* combine_forecasts *)

\* the accumulators as they stand before the loop (lines 238-261)
LoopInit ==
    [temp |-> Zero, apparent |-> Zero, humidity |-> Zero,
     wind_north |-> SurdZero, wind_east |-> SurdZero,
     wind_kmh_north |-> SurdZero, wind_kmh_east |-> SurdZero,
     wind_count |-> Zero,
     max |-> [temp |-> F64_MIN, apparent |-> F64_MIN, humidity |-> F64_MIN,
              wind |-> F64_MIN, wind_kmh |-> F64_MIN, wind_direction |-> None],
     min |-> [temp |-> F64_MAX, apparent |-> F64_MAX, humidity |-> F64_MAX,
              wind |-> F64_MAX, wind_kmh |-> F64_MAX, wind_direction |-> None]]

\* the summations for averaging of one pass of the loop (lines 263-274)
LoopSums(acc, val) ==
    LET sc == sin_cos(Unwrap(val.wind_direction))
        sin == sc[1]
        cos == sc[2]
        scalars == [acc EXCEPT !.temp = QAdd(@, val.temp),
                               !.apparent = QAdd(@, val.apparent),
                               !.humidity = QAdd(@, val.humidity)]
    IN  IF IsSome(val.wind_direction)
        THEN [scalars EXCEPT
                 !.wind_north = SurdAdd(@, SurdScale(val.wind, cos)),
                 !.wind_east = SurdAdd(@, SurdScale(val.wind, sin)),
                 !.wind_kmh_north = SurdAdd(@, SurdScale(val.wind_kmh, cos)),
                 !.wind_kmh_east = SurdAdd(@, SurdScale(val.wind_kmh, sin)),
                 !.wind_count = QAdd(@, Int2Q(1))]
        ELSE scalars

\* LoopMax with >= for >: on a tie the last sample wins
LoopMaxLast(max, val) ==
    LET scalars == [max EXCEPT !.temp = QMax(@, val.temp),
                               !.apparent = QMax(@, val.apparent),
                               !.humidity = QMax(@, val.humidity)]
    IN  IF ~QLt(val.wind, max.wind)
        THEN [scalars EXCEPT !.wind_direction = val.wind_direction,
                             !.wind = val.wind,
                             !.wind_kmh = val.wind_kmh]
        ELSE scalars

\* the maximum after one pass of the loop (lines 276-284)
LoopMax(max, val) ==
    LET scalars == [max EXCEPT !.temp = QMax(@, val.temp),
                               !.apparent = QMax(@, val.apparent),
                               !.humidity = QMax(@, val.humidity)]
    IN  IF QGt(val.wind, max.wind)
        THEN [scalars EXCEPT !.wind_direction = val.wind_direction,
                             !.wind = val.wind,
                             !.wind_kmh = val.wind_kmh]
        ELSE scalars

\* LoopMin with the apparent temperature compared against val.temp
LoopMinPasted(min, val) ==
    LET scalars == [min EXCEPT !.temp = QMin(@, val.temp),
                               !.apparent = QMin(@, val.temp),
                               !.humidity = QMin(@, val.humidity)]
    IN  IF QLt(val.wind, min.wind)
        THEN [scalars EXCEPT !.wind_direction = val.wind_direction,
                             !.wind = val.wind,
                             !.wind_kmh = val.wind_kmh]
        ELSE scalars

\* the minimum after one pass of the loop (lines 286-294)
LoopMin(min, val) ==
    LET scalars == [min EXCEPT !.temp = QMin(@, val.temp),
                               !.apparent = QMin(@, val.apparent),
                               !.humidity = QMin(@, val.humidity)]
    IN  IF QLt(val.wind, min.wind)
        THEN [scalars EXCEPT !.wind_direction = val.wind_direction,
                             !.wind = val.wind,
                             !.wind_kmh = val.wind_kmh]
        ELSE scalars

\* one pass of the loop
LoopBody(acc, val) ==
    [LoopSums(acc, val) EXCEPT !.max = LoopMax(acc.max, val),
                               !.min = LoopMin(acc.min, val)]

\* the accumulators after the first n elements of xs
RECURSIVE Loop(_, _)
Loop(xs, n) == IF n = 0 THEN LoopInit ELSE LoopBody(Loop(xs, n - 1), xs[n])

\* WindResults without the test of wind_count
WindResultsUnguarded(acc) ==
    [wind |-> QDiv(hypot(acc.wind_east, acc.wind_north), acc.wind_count),
     wind_kmh |-> QDiv(hypot(acc.wind_kmh_east, acc.wind_kmh_north), acc.wind_count),
     wind_direction |->
         Some(rem_euclid(atan2_degrees(acc.wind_east, acc.wind_north), 720))]

\* the wind results, discarding invalid wind values (lines 299-308)
WindResults(acc) ==
    IF acc.wind_count = Zero
    THEN [wind |-> Zero, wind_kmh |-> Zero, wind_direction |-> None]
    ELSE [wind |-> QDiv(hypot(acc.wind_east, acc.wind_north), acc.wind_count),
          wind_kmh |-> QDiv(hypot(acc.wind_kmh_east, acc.wind_kmh_north), acc.wind_count),
          wind_direction |->
              Some(rem_euclid(atan2_degrees(acc.wind_east, acc.wind_north), 720))]

\* the averages: the scalar sums over the sample count, and the wind results w
\* (lines 310-317)
Averages(acc, count, w) ==
    [temp |-> QDiv(acc.temp, count),
     apparent |-> QDiv(acc.apparent, count),
     humidity |-> QDiv(acc.humidity, count),
     wind |-> w.wind,
     wind_kmh |-> w.wind_kmh,
     wind_direction |-> w.wind_direction]

\* the forecast built from the accumulators left by the loop
ForecastFrom(acc, count, fin) ==
    [avg |-> Averages(acc, count, WindResults(acc)),
     min |-> acc.min, max |-> acc.max, fin |-> fin]

combine_forecasts(xs, fin) == ForecastFrom(Loop(xs, Len(xs)), Int2Q(Len(xs)), fin)

-----------------------------------------------------------------------------
(* Strings *)

UpperCase == "ABCDEFGHIJKLMNOPQRSTUVWXYZ"
LowerCase == "abcdefghijklmnopqrstuvwxyz"

\* char::to_lowercase of the one-character string c
LowerChar(c) ==
    IF \E i \in 1..Len(UpperCase) : SubSeq(UpperCase, i, i) = c
    THEN LET i == CHOOSE i \in 1..Len(UpperCase) : SubSeq(UpperCase, i, i) = c
         IN  SubSeq(LowerCase, i, i)
    ELSE c

\* str::to_lowercase
RECURSIVE to_lowercase(_)
to_lowercase(str) ==
    IF Len(str) = 0 THEN ""
    ELSE LowerChar(SubSeq(str, 1, 1)) \o to_lowercase(SubSeq(str, 2, Len(str)))

\* str::contains
contains(str, pat) ==
    \E i \in 1..(Len(str) - Len(pat) + 1) : SubSeq(str, i, i + Len(pat) - 1) = pat

\* str::ends_with
ends_with(str, pat) ==
    Len(pat) <= Len(str) /\ SubSeq(str, Len(str) - Len(pat) + 1, Len(str)) = pat

-----------------------------------------------------------------------------
(* short_forecast_to_icon *)

Snow == [kind |-> "Snow"]
Default == [kind |-> "Default"]
Thunder(night) == [kind |-> "Thunder", is_night |-> night]
Fog(night) == [kind |-> "Fog", is_night |-> night]
Rain(night) == [kind |-> "Rain", is_night |-> night]
Clouds(night) == [kind |-> "Clouds", is_night |-> night]
Clear(night) == [kind |-> "Clear", is_night |-> night]

\* short_forecast_to_icon with rain looked for before fog
short_forecast_to_icon_rain_first(text, night) ==
    LET w == to_lowercase(text)
    IN  IF contains(w, "snow") \/ contains(w, "flurr") \/ contains(w, "blizzard") THEN Snow
        ELSE IF contains(w, "thunder") THEN Thunder(night)
        ELSE IF contains(w, "rain") \/ contains(w, "shower") \/ contains(w, "drizzle")
             THEN Rain(night)
        ELSE IF contains(w, "fog") \/ contains(w, "mist") THEN Fog(night)
        ELSE IF contains(w, "cloud") \/ contains(w, "overcast") THEN Clouds(night)
        ELSE IF contains(w, "clear") \/ contains(w, "sunny") THEN Clear(night)
        ELSE Default

short_forecast_to_icon(text, night) ==
    LET w == to_lowercase(text)
    IN  IF contains(w, "snow") \/ contains(w, "flurr") \/ contains(w, "blizzard") THEN Snow
        ELSE IF contains(w, "thunder") THEN Thunder(night)
        ELSE IF contains(w, "fog") \/ contains(w, "mist") THEN Fog(night)
        ELSE IF contains(w, "rain") \/ contains(w, "shower") \/ contains(w, "drizzle")
             THEN Rain(night)
        ELSE IF contains(w, "cloud") \/ contains(w, "overcast") THEN Clouds(night)
        ELSE IF contains(w, "clear") \/ contains(w, "sunny") THEN Clear(night)
        ELSE Default

-----------------------------------------------------------------------------
(* ApiForecast *)

MPH_TO_KMH == Q(1609344, 1000000)
MPH_TO_MS == QDiv(Q(1609344, 1000000), Q(36, 10))
KMH_TO_MS == QDiv(Int2Q(1), Q(36, 10))

CompassPoints == <<"N", "NNE", "NE", "ENE", "E", "ESE", "SE", "SSE",
                   "S", "SSW", "SW", "WSW", "W", "WNW", "NW", "NNW">>

\* wind_direction with any other token taken for north
wind_direction_or_north(p) ==
    IF \E i \in 1..16 : CompassPoints[i] = p.wind_direction
    THEN LET dir == (CHOOSE i \in 1..16 : CompassPoints[i] = p.wind_direction) - 1
         IN  Some(<<dir * 45, dir * 45>>)
    ELSE Some(<<0, 0>>)

\* Some(dir * (360 / 16)) in half-degrees, None for any other token
wind_direction(p) ==
    IF \E i \in 1..16 : CompassPoints[i] = p.wind_direction
    THEN LET dir == (CHOOSE i \in 1..16 : CompassPoints[i] = p.wind_direction) - 1
         IN  Some(<<dir * 45, dir * 45>>)
    ELSE None

icon_to_word(i) == IF i.kind = "Default" THEN "Unknown" ELSE i.kind

wind_speed_kmh(p) ==
    IF ends_with(p.wind_speed.unit_code, "km_h-1")
    THEN p.wind_speed.value
    ELSE QMul(p.wind_speed.value, MPH_TO_KMH)

\* wind_speed_local_units with the source value left as it is
wind_speed_local_units_raw(p) == p.wind_speed.value

wind_speed_local_units(p) ==
    IF ends_with(p.wind_speed.unit_code, "km_h-1")
    THEN QMul(p.wind_speed.value, KMH_TO_MS)
    ELSE p.wind_speed.value

wind_speed_ms(p) ==
    IF ends_with(p.wind_speed.unit_code, "km_h-1")
    THEN QMul(p.wind_speed.value, KMH_TO_MS)
    ELSE QMul(p.wind_speed.value, MPH_TO_MS)

\* super::australian_apparent_temp is defined outside this file and takes an
\* exponential: its value for a period is an input, given with the period
australian_apparent_temp(p, temp, humidity, wind_speed) == p.australian

apparent_temp(p) ==
    LET temp == IF ends_with(p.temperature.unit_code, "degC")
                THEN p.temperature.value
                ELSE QDiv(QMul(QSub(p.temperature.value, Int2Q(32)), Int2Q(5)), Int2Q(9))
        humidity == p.relative_humidity.value
        wind_speed == wind_speed_ms(p)
        apparent == australian_apparent_temp(p, temp, humidity, wind_speed)
    IN  IF ends_with(p.temperature.unit_code, "degC")
        THEN apparent
        ELSE QAdd(QDiv(QMul(apparent, Int2Q(9)), Int2Q(5)), Int2Q(32))

to_moment(p) ==
    LET i == short_forecast_to_icon(p.short_forecast, ~p.is_daytime)
    IN  [icon |-> i,
         weather |-> icon_to_word(i),
         weather_verbose |-> p.short_forecast,
         temp |-> p.temperature.value,
         apparent |-> apparent_temp(p),
         humidity |-> p.relative_humidity.value,
         wind |-> wind_speed_local_units(p),
         wind_kmh |-> wind_speed_kmh(p),
         wind_direction |-> wind_direction(p)]

to_aggregate(p) ==
    [temp |-> p.temperature.value,
     apparent |-> apparent_temp(p),
     humidity |-> p.relative_humidity.value,
     wind |-> wind_speed_local_units(p),
     wind_kmh |-> wind_speed_kmh(p),
     wind_direction |-> wind_direction(p)]

-----------------------------------------------------------------------------
(* get_weather, from the decoded response on *)

Ok(v) == [ok |-> TRUE, value |-> v]
Err(msg) == [ok |-> FALSE, error |-> msg]

Min(a, b) == IF a < b THEN a ELSE b

\* first with a default period for an empty list
first_or_default(xs) ==
    IF Len(xs) = 0
    THEN Some([is_daytime |-> TRUE,
               temperature |-> [value |-> Zero, unit_code |-> ""],
               relative_humidity |-> [value |-> Zero, unit_code |-> ""],
               wind_speed |-> [value |-> Zero, unit_code |-> ""],
               wind_direction |-> "",
               short_forecast |-> "",
               australian |-> Zero])
    ELSE Some(xs[1])

\* slice::first
first(xs) == IF Len(xs) = 0 THEN None ELSE Some(xs[1])

\* slice::get, with indices from 0
get(xs, i) == IF i < Len(xs) THEN Some(xs[i + 1]) ELSE None

\* iter().take(n).map(to_aggregate).collect()
TakeAggregates(xs, n) == [i \in 1..Min(n, Len(xs)) |-> to_aggregate(xs[i])]

\* FinIndex clamped to the length, one past the last index
FinIndexPastEnd(hours, len) == Min(hours, len)

\* the index of the terminal period: self.config.forecast_hours.min(data.len() - 1)
FinIndex(hours, len) == Min(hours, len - 1)

get_weather(xs, hours, need) ==
    IF ~IsSome(first(xs)) THEN Err("No current weather")
    ELSE LET current_weather == to_moment(Unwrap(first(xs)))
         IN  IF ~need
             THEN Ok([location |-> "name", current_weather |-> current_weather,
                      forecast |-> None])
             ELSE LET data_agg == TakeAggregates(xs, hours)
                      fin == get(xs, FinIndex(hours, Len(xs)))
                  IN  IF ~IsSome(fin) THEN Err("no weather available")
                      ELSE Ok([location |-> "name",
                               current_weather |-> current_weather,
                               forecast |-> Some(combine_forecasts(
                                   data_agg, to_moment(Unwrap(fin))))])

-----------------------------------------------------------------------------
(* Bounds and inputs *)

MaxPeriods == 3     \* the longest list of periods in a response
MaxHours == 4       \* the largest forecast_hours configured
MaxData == 3        \* the longest slice given to combine_forecasts
MaxPhrases == 3     \* the most phrases in a short forecast

SeqsUpTo(S, n) == UNION {[1..k -> S] : k \in 0..n}

ApiValue(v, code) == [value |-> Int2Q(v), unit_code |-> code]

MetricPeriod(day, temp, hum, wind, dir, text, at) ==
    [is_daytime |-> day,
     temperature |-> ApiValue(temp, "wmoUnit:degC"),
     relative_humidity |-> ApiValue(hum, "wmoUnit:percent"),
     wind_speed |-> ApiValue(wind, "wmoUnit:km_h-1"),
     wind_direction |-> dir,
     short_forecast |-> text,
     australian |-> Int2Q(at)]

ImperialPeriod(day, temp, hum, wind, dir, text, at) ==
    [is_daytime |-> day,
     temperature |-> ApiValue(temp, "wmoUnit:degF"),
     relative_humidity |-> ApiValue(hum, "wmoUnit:percent"),
     wind_speed |-> ApiValue(wind, "wxgov:mph"),
     wind_direction |-> dir,
     short_forecast |-> text,
     australian |-> Int2Q(at)]

\* the periods a response is written from
Periods ==
    { MetricPeriod(TRUE, 20, 50, 18, "N", "Mostly Sunny", 19),
      MetricPeriod(FALSE, 15, 80, 0, "SSW", "Rain and Fog", 16),
      MetricPeriod(TRUE, 25, 30, 7, "", "Thunderstorms", 24),
      MetricPeriod(FALSE, -2, 90, 36, "SSW", "Chance Snow Showers", -9),
      ImperialPeriod(TRUE, 68, 40, 5, "E", "Partly Cloudy", 18),
      ImperialPeriod(FALSE, 50, 90, 0, "VRB", "Mostly Clear", 9),
      ImperialPeriod(TRUE, 77, 65, 12, "SSW", "Haze", 26),
      ImperialPeriod(FALSE, 32, 70, 5, "N", "Light Drizzle", -4) }

Aggregate(temp, apparent, hum, wind, wind_kmh, dir) ==
    [temp |-> temp, apparent |-> apparent, humidity |-> hum,
     wind |-> wind, wind_kmh |-> wind_kmh, wind_direction |-> dir]

Bearing(token) == wind_direction([wind_direction |-> token])

\* the samples a slice is written from: winds of 0, 1 and 2 mph from three bearings
\* and from none; the wind of 2 once more, in m/s; four more sets of scalars
Samples ==
    { Aggregate(Int2Q(10), Int2Q(9), Int2Q(50), Int2Q(w), QMul(Int2Q(w), MPH_TO_KMH), d) :
        w \in 0..2, d \in {None, Bearing("N"), Bearing("E"), Bearing("SSW")} }
    \cup
    { Aggregate(Int2Q(10), Int2Q(9), Int2Q(50), Int2Q(2), QDiv(Int2Q(2), KMH_TO_MS), d) :
        d \in {None, Bearing("S")} }
    \cup
    { Aggregate(Int2Q(-3), Int2Q(-7), Int2Q(40), Int2Q(1), Int2Q(1), Bearing("N")),
      Aggregate(Int2Q(25), Int2Q(27), Int2Q(90), Int2Q(1), Int2Q(1), Bearing("N")),
      Aggregate(Q(21, 2), Q(-7, 2), Int2Q(90), Int2Q(1), Int2Q(1), Bearing("N")) }

\* the phrases a short forecast is written from, each with the class of its keyword
Phrases ==
    << [text |-> "Snow", kind |-> "Snow"],
       [text |-> "FLURRIES", kind |-> "Snow"],
       [text |-> "Blizzard", kind |-> "Snow"],
       [text |-> "Thunderstorms", kind |-> "Thunder"],
       [text |-> "Fog", kind |-> "Fog"],
       [text |-> "mist", kind |-> "Fog"],
       [text |-> "Rain", kind |-> "Rain"],
       [text |-> "Showers", kind |-> "Rain"],
       [text |-> "DRIZZLE", kind |-> "Rain"],
       [text |-> "Cloudy", kind |-> "Clouds"],
       [text |-> "Overcast", kind |-> "Clouds"],
       [text |-> "Clear", kind |-> "Clear"],
       [text |-> "Sunny", kind |-> "Clear"],
       [text |-> "Chance", kind |-> "Default"],
       [text |-> "and", kind |-> "Default"] >>

\* the phrases ps, joined by spaces
RECURSIVE Join(_)
Join(ps) ==
    IF Len(ps) = 0 THEN ""
    ELSE IF Len(ps) = 1 THEN Phrases[ps[1]].text
    ELSE Phrases[ps[1]].text \o " " \o Join(Tail(ps))

-----------------------------------------------------------------------------
(* Spec: get_weather on a decoded response *)

Init ==
    /\ periods \in SeqsUpTo(Periods, MaxPeriods)
    /\ forecast_hours \in 0..MaxHours
    /\ need_forecast = FALSE
    /\ result = None
    /\ data = <<>> /\ forecast = None
    /\ weather = "" /\ is_night = FALSE /\ kinds = {} /\ icon = None

GetWeather(need) ==
    /\ result = None
    /\ need_forecast' = need
    /\ result' = Some(get_weather(periods, forecast_hours, need))
    /\ UNCHANGED <<periods, forecast_hours, data, forecast, weather, is_night, kinds, icon>>

Next == \E need \in BOOLEAN : GetWeather(need)

Spec == Init /\ [][Next]_vars

-----------------------------------------------------------------------------
(* SpecAgg: combine_forecasts on a slice of samples *)

\* the terminal moment handed to combine_forecasts
Fin == to_moment(MetricPeriod(TRUE, 20, 50, 18, "N", "Mostly Sunny", 19))

InitAgg ==
    /\ data \in SeqsUpTo(Samples, MaxData)
    /\ forecast = None
    /\ periods = <<>> /\ forecast_hours = 0 /\ need_forecast = FALSE /\ result = None
    /\ weather = "" /\ is_night = FALSE /\ kinds = {} /\ icon = None

Combine ==
    /\ forecast = None
    /\ forecast' = Some(combine_forecasts(data, Fin))
    /\ UNCHANGED <<periods, forecast_hours, need_forecast, result, data,
                   weather, is_night, kinds, icon>>

NextAgg == Combine

SpecAgg == InitAgg /\ [][NextAgg]_vars

-----------------------------------------------------------------------------
(* SpecIcon: short_forecast_to_icon on a short forecast *)

InitIcon ==
    /\ \E ps \in SeqsUpTo(1..Len(Phrases), MaxPhrases) :
          /\ weather = Join(ps)
          /\ kinds = {Phrases[ps[i]].kind : i \in 1..Len(ps)}
    /\ is_night = FALSE
    /\ icon = None
    /\ periods = <<>> /\ forecast_hours = 0 /\ need_forecast = FALSE /\ result = None
    /\ data = <<>> /\ forecast = None

Classify(night) ==
    /\ icon = None
    /\ is_night' = night
    /\ icon' = Some(short_forecast_to_icon(weather, night))
    /\ UNCHANGED <<periods, forecast_hours, need_forecast, result, data, forecast,
                   weather, kinds>>

NextIcon == \E night \in BOOLEAN : Classify(night)

SpecIcon == InitIcon /\ [][NextIcon]_vars

-----------------------------------------------------------------------------
(* Properties of get_weather (Spec) *)

Returned == Unwrap(result)
Window == SubSeq(periods, 1, IF forecast_hours < Len(periods)
                                THEN forecast_hours ELSE Len(periods))
ReturnedForecast == Unwrap(Returned.value.forecast)
IsMetricWind(p) == p.wind_speed.unit_code = "wmoUnit:km_h-1"
IsCompassPoint(token) ==
    token \in {"N", "NNE", "NE", "ENE", "E", "ESE", "SE", "SSE",
               "S", "SSW", "SW", "WSW", "W", "WNW", "NW", "NNW"}

\* C1: whenever a forecast is asked for and the sample window is empty (for example
\* forecast_hours = 0 with a non-empty list of periods), get_weather fails with an
\* error and returns no Forecast.
C1_EmptyWindowFails ==
    (result # None /\ need_forecast /\ Len(periods) > 0 /\ Len(Window) = 0)
        => ~Returned.ok

\* C2: for a non-empty list of periods and any forecast_hours >= 0, with need_forecast
\* the terminal moment is that of the period at index min(forecast_hours, len - 1):
\* the lookup never fails, and it is the last period when forecast_hours >= len.
C2_TerminalIndexClamped ==
    (result # None /\ need_forecast /\ Len(periods) > 0)
        => /\ Returned.ok
           /\ IsSome(Returned.value.forecast)
           /\ ReturnedForecast.fin =
                 to_moment(periods[IF forecast_hours >= Len(periods)
                                   THEN Len(periods) ELSE forecast_hours + 1])

C2_Witness ==
    /\ result # None /\ need_forecast
    /\ Len(periods) >= 2 /\ forecast_hours > Len(periods)
    /\ Returned.ok
    /\ ReturnedForecast.fin = to_moment(periods[Len(periods)])
    /\ ReturnedForecast.fin # to_moment(periods[1])

\* C5, as claimed: for a period whose wind speed is tagged in km/h, the local-units
\* wind of its WeatherMoment is in km/h: it equals the source value and equals wind_kmh.
C5_LocalWindIsKmh ==
    (result # None /\ Len(periods) > 0 /\ IsMetricWind(periods[1]))
        => /\ Returned.value.current_weather.wind = periods[1].wind_speed.value
           /\ Returned.value.current_weather.wind = Returned.value.current_weather.wind_kmh

\* C5, as amended: for a period whose wind speed is tagged in km/h, the local-units
\* wind of its WeatherMoment and of its ForecastAggregate is in metres per second, the
\* source value divided by 3.6, and wind_kmh is the source value.
C5_LocalWindIsMetresPerSecond ==
    (result # None /\ Len(periods) > 0 /\ IsMetricWind(periods[1]))
        => /\ QMul(Returned.value.current_weather.wind, Q(36, 10))
                 = periods[1].wind_speed.value
           /\ Returned.value.current_weather.wind_kmh = periods[1].wind_speed.value
           /\ (need_forecast /\ Len(Window) = 1)
                 => /\ QMul(ReturnedForecast.max.wind, Q(36, 10))
                          = periods[1].wind_speed.value
                    /\ ReturnedForecast.max.wind_kmh = periods[1].wind_speed.value

C5_Witness ==
    /\ result # None /\ need_forecast /\ Len(Window) = 1
    /\ IsMetricWind(periods[1])
    /\ periods[1].wind_speed.value = Int2Q(18)
    /\ Returned.value.current_weather.wind = Int2Q(5)
    /\ ReturnedForecast.max.wind = Int2Q(5)
    /\ ReturnedForecast.max.wind_kmh = Int2Q(18)

\* C7: when the list of periods is empty get_weather fails with the no-current-data
\* error and returns no WeatherResult, whether or not a forecast is asked for.
C7_EmptyResponseFails ==
    (result # None /\ Len(periods) = 0) => Returned = Err("No current weather")

C7_Witness ==
    /\ result # None /\ Len(periods) = 0 /\ need_forecast /\ forecast_hours > 0
    /\ ~Returned.ok

\* the sum of the rationals qs
RECURSIVE SumQ(_)
SumQ(qs) == IF Len(qs) = 0 THEN Zero ELSE QAdd(Head(qs), SumQ(Tail(qs)))

TempsOf(ps) == [i \in 1..Len(ps) |-> ps[i].temperature.value]
HumiditiesOf(ps) == [i \in 1..Len(ps) |-> ps[i].relative_humidity.value]
Directed(p) == IsCompassPoint(p.wind_direction)
AggregatesOf(ps) == [i \in 1..Len(ps) |-> to_aggregate(ps[i])]

-----------------------------------------------------------------------------
(* Properties of combine_forecasts (SpecAgg) *)

Combined == Unwrap(forecast)
Scalars == {"temp", "apparent", "humidity"}

SameBearing(i) ==
    /\ IsSome(data[i].wind_direction)
    /\ \A j \in 1..Len(data) : data[j].wind_direction = data[i].wind_direction

\* C4, as claimed: if all samples share the same resolvable bearing, the average wind
\* direction is that bearing, whatever the wind speeds of the samples, zero included.
C4_SameBearingAnySpeed ==
    forecast # None =>
        \A i \in 1..Len(data) :
            SameBearing(i)
                => Combined.avg.wind_direction = data[i].wind_direction

\* C4, as amended: if all samples share the same resolvable bearing, no wind speed is
\* negative and at least one is positive, the average wind direction is that bearing;
\* if all the wind speeds are zero it is 0 degrees.
C4_SameBearingSomeWind ==
    forecast # None =>
        \A i \in 1..Len(data) :
            (/\ SameBearing(i)
             /\ \A j \in 1..Len(data) : ~QLt(data[j].wind, Zero))
                => IF \E j \in 1..Len(data) : QLt(Zero, data[j].wind)
                   THEN Combined.avg.wind_direction = data[i].wind_direction
                   ELSE Combined.avg.wind_direction = Some(<<0, 0>>)

C4_Witness ==
    /\ forecast # None /\ Len(data) = 3
    /\ SameBearing(1) /\ data[1].wind_direction = Some(<<405, 405>>)
    /\ data[1].wind = Zero /\ data[2].wind = Int2Q(2) /\ data[3].wind = Int2Q(1)
    /\ Combined.avg.wind_direction = Some(<<405, 405>>)

\* C8: if no sample has a resolvable wind direction, the average has no wind direction
\* and an average wind speed of 0, in local units and in km/h: nothing is divided by
\* the zero count of directed samples.
C8_NoBearingNoWind ==
    (forecast # None /\ \A i \in 1..Len(data) : data[i].wind_direction = None)
        => /\ Combined.avg.wind_direction = None
           /\ Combined.avg.wind = Zero
           /\ Combined.avg.wind_kmh = Zero

C8_Witness ==
    /\ forecast # None /\ Len(data) = 2
    /\ \A i \in 1..Len(data) : data[i].wind_direction = None
    /\ data[1].wind = Int2Q(2) /\ data[2].wind = Int2Q(1)
    /\ Combined.avg.wind = Zero /\ Combined.avg.wind_direction = None

\* the first index of the largest and of the smallest wind speed
FirstMaxWind ==
    CHOOSE i \in 1..Len(data) :
        /\ \A j \in 1..Len(data) : ~QLt(data[i].wind, data[j].wind)
        /\ \A j \in 1..(i - 1) : QLt(data[j].wind, data[i].wind)
FirstMinWind ==
    CHOOSE i \in 1..Len(data) :
        /\ \A j \in 1..Len(data) : ~QLt(data[j].wind, data[i].wind)
        /\ \A j \in 1..(i - 1) : QLt(data[i].wind, data[j].wind)

\* C9: over a non-empty slice, the wind speed of max (of min) is the largest (the
\* smallest) among the samples, and its direction and km/h speed are those of the
\* first sample with that speed.
C9_ExtremeWindCoupled ==
    (forecast # None /\ Len(data) > 0)
        => /\ Combined.max.wind = data[FirstMaxWind].wind
           /\ Combined.max.wind_direction = data[FirstMaxWind].wind_direction
           /\ Combined.max.wind_kmh = data[FirstMaxWind].wind_kmh
           /\ Combined.min.wind = data[FirstMinWind].wind
           /\ Combined.min.wind_direction = data[FirstMinWind].wind_direction
           /\ Combined.min.wind_kmh = data[FirstMinWind].wind_kmh

C9_Witness ==
    /\ forecast # None /\ Len(data) = 3
    /\ data[1].wind = Int2Q(1)
    /\ data[2].wind = Int2Q(2) /\ data[3].wind = Int2Q(2)
    /\ data[2].wind_direction # data[3].wind_direction
    /\ data[2].wind_kmh # data[3].wind_kmh
    /\ Combined.max.wind_direction = data[2].wind_direction
    /\ Combined.max.wind_kmh = data[2].wind_kmh

-----------------------------------------------------------------------------
(* Properties of short_forecast_to_icon (SpecIcon) *)

\* the icon of the class of highest priority among ks
ByPriority(ks, night) ==
    IF "Snow" \in ks THEN Snow
    ELSE IF "Thunder" \in ks THEN Thunder(night)
    ELSE IF "Fog" \in ks THEN Fog(night)
    ELSE IF "Rain" \in ks THEN Rain(night)
    ELSE IF "Clouds" \in ks THEN Clouds(night)
    ELSE IF "Clear" \in ks THEN Clear(night)
    ELSE Default

\* C6: the icon is that of the class of highest priority (snow, thunder, fog, rain,
\* clouds, clear, else default) whose keyword occurs in the text, whatever the case of
\* the letters and wherever the keywords stand; snow carries no night flag and every
\* other class carries the flag passed in ("Rain and Fog" is Fog, "Chance Snow
\* Showers" is Snow).
C6_IconByPriority ==
    icon # None =>
        /\ Unwrap(icon) = ByPriority(kinds, is_night)
        /\ weather = "Rain and Fog" => Unwrap(icon) = Fog(is_night)
        /\ weather = "Chance Snow Showers" => Unwrap(icon) = Snow

C6_Witness ==
    /\ icon # None /\ is_night
    /\ weather = "Rain and Fog"
    /\ kinds = {"Rain", "Default", "Fog"}
    /\ Unwrap(icon) = [kind |-> "Fog", is_night |-> TRUE]

====
